---- MODULE Spec2Model ----
(***************************************************************************)
(* Model of pybea.client.BureauEconomicAnalysisClient.                     *)
(*                                                                         *)
(* Python strings are TLA+ strings; a Python value that a caller may pass  *)
(* as an argument, or that ends up in the params dict, is a tagged record  *)
(* [type, val] so that isinstance(x, list) is a test of the tag.           *)
(***************************************************************************)
EXTENDS Integers, Sequences, FiniteSets, TLC

\* api_key, _format and authstate are the fields of the instance a method is
\* running on (self); `this` says which instance that is and `other` holds
\* the fields of the second instance, when the program has constructed one.
VARIABLES api_key, _format, authstate, last, this, other

vars == <<api_key, _format, authstate, last, this, other>>

----------------------------------------------------------------------------
(* Bounds of the model. *)

\* Longest list a caller passes for one filter argument.
MaxListLen == 2

----------------------------------------------------------------------------
(* Python values and the built-ins the client uses. *)

PyStr(s) == [type |-> "str", val |-> s]
PyList(l) == [type |-> "list", val |-> l]
PyInt(n) == [type |-> "int", val |-> n]

\* isinstance(x, list)
IsList(x) == x.type = "list"

\* x != "ALL" style comparison of a Python value with a str literal.
PyNe(x, lit) == ~(x.type = "str" /\ x.val = lit)

\* The characters of a string, as Python iterates them.
Chars(s) == [i \in 1..Len(s) |-> SubSeq(s, i, i)]

\* What iterating a Python value yields: the items of a list, the
\* one-character strings of a str.
Iter(x) == IF IsList(x) THEN x.val ELSE Chars(x.val)

\* A join that emits the items last to first (mutation of JoinSeq).
RECURSIVE JoinSeqReversed(_, _)
JoinSeqReversed(sep, items) ==
    IF items = <<>> THEN ""
    ELSE IF Len(items) = 1 THEN items[1]
    ELSE JoinSeqReversed(sep, Tail(items)) \o sep \o items[1]

RECURSIVE JoinSeq(_, _)
JoinSeq(sep, items) ==
    IF items = <<>> THEN ""
    ELSE IF Len(items) = 1 THEN items[1]
    ELSE items[1] \o sep \o JoinSeq(sep, Tail(items))

\* ",".join(x) for a Python list of str, or a str.
Join(sep, x) == PyStr(JoinSeq(sep, Iter(x)))

UpperChar(c) ==
    CASE c = "j" -> "J" [] c = "s" -> "S" [] c = "o" -> "O" [] c = "n" -> "N"
      [] c = "x" -> "X" [] c = "m" -> "M" [] c = "l" -> "L" [] c = "c" -> "C"
      [] c = "v" -> "V" [] c = "g" -> "G" [] c = "e" -> "E" [] c = "t" -> "T"
      [] OTHER -> c

RECURSIVE upper(_)
\* str.upper(), on the alphabet the model's inputs are written in.
upper(s) == IF s = "" THEN "" ELSE UpperChar(SubSeq(s, 1, 1)) \o upper(SubSeq(s, 2, Len(s)))

----------------------------------------------------------------------------
(* The client: construction and the format property. *)

bea_url == "https://apps.bea.gov/api/data/"

\* API keys a client is constructed with.
ApiKeys == {"", "KEY"}

\* The record of the operation the caller has just made on the client, as
\* the caller observed it: `outcome` is "return" or "raise", `error` the
\* exception class, `before` the format when the operation began.
\* Python's None, and the absence of a response.
None == [type |-> "NoneType", val |-> <<>>]
NoResponse == [raises |-> "", status_code |-> 0, text |-> ""]

NoCall ==
    [op |-> "none", args |-> <<>>, params |-> <<>>, requests |-> <<>>,
     session |-> "none", printed |-> <<>>, response |-> NoResponse,
     outcome |-> "return", error |-> "", result |-> None, before |-> "JSON",
     steps |-> <<>>]

\* The fields of an instance that was never constructed.
NoClient == [api_key |-> "", _format |-> "", authstate |-> FALSE]

\* A constructor that sets the flag whatever the key (mutation of Init).
InitAlwaysAuthorized ==
    /\ api_key \in ApiKeys
    /\ _format = "JSON"
    /\ authstate = TRUE
    /\ last = NoCall
    /\ this = 1
    /\ other = NoClient

\* __init__
Init ==
    /\ api_key \in ApiKeys
    /\ _format = "JSON"
    /\ authstate = (api_key # "")
    /\ last = NoCall
    /\ this = 1
    /\ other = NoClient

\* Strings a caller assigns to client.format.
FormatInputs == {"json", "JSON", "xml", "XML", "Json", "xMl", "csv", "JSONL", ""}

\* A test that refuses only the empty string (mutation of FormatRejected).
FormatRejectedIfEmpty(value) == value = ""

\* The test of the format setter: value.upper() not in ["JSON", "XML"].
FormatRejected(value) == upper(value) \notin {"JSON", "XML"}

\* Storing the value as the caller wrote it (mutation of FormatStored).
FormatStoredAsGiven(value) == value

\* The value the format setter stores.
FormatStored(value) == upper(value)

\* The client is synchronous and single-threaded: an operation begins only
\* after the previous one has returned or raised to its caller.
Idle == last = NoCall

\* The caller takes the outcome of its last operation and goes on.
CallerContinues ==
    /\ ~Idle
    /\ last' = NoCall
    /\ UNCHANGED <<api_key, _format, authstate, this, other>>

\* A setter that stores before it validates (mutation of format_setter).
format_setter_StoreFirst(value) ==
    /\ Idle
    /\ _format' = upper(value)
    /\ last' = [NoCall EXCEPT !.op = "format.setter",
                              !.args = [value |-> value],
                              !.outcome = IF upper(value) \notin {"JSON", "XML"}
                                          THEN "raise" ELSE "return",
                              !.error = IF upper(value) \notin {"JSON", "XML"}
                                        THEN "ValueError" ELSE "",
                              !.before = _format]
    /\ UNCHANGED <<api_key, authstate, this, other>>

\* A setter that stores the format on the class, where every instance reads
\* it (mutation of format_setter).
format_setter_OnClass(value) ==
    /\ Idle
    /\ IF FormatRejected(value)
       THEN /\ UNCHANGED <<_format, other>>
            /\ last' = [NoCall EXCEPT !.op = "format.setter",
                                      !.args = [value |-> value],
                                      !.outcome = "raise",
                                      !.error = "ValueError",
                                      !.before = _format]
       ELSE /\ _format' = FormatStored(value)
            /\ other' = [other EXCEPT !._format = FormatStored(value)]
            /\ last' = [NoCall EXCEPT !.op = "format.setter",
                                      !.args = [value |-> value],
                                      !.before = _format]
    /\ UNCHANGED <<api_key, authstate, this>>

\* format.setter
format_setter(value) ==
    /\ Idle
    /\ IF FormatRejected(value)
       THEN /\ UNCHANGED _format
            /\ last' = [NoCall EXCEPT !.op = "format.setter",
                                      !.args = [value |-> value],
                                      !.outcome = "raise",
                                      !.error = "ValueError",
                                      !.before = _format]
       ELSE /\ _format' = FormatStored(value)
            /\ last' = [NoCall EXCEPT !.op = "format.setter",
                                      !.args = [value |-> value],
                                      !.before = _format]
    /\ UNCHANGED <<api_key, authstate, this, other>>

\* format (getter)
format == _format

----------------------------------------------------------------------------
(* The transport (requests.Session) and the response it hands back. *)

\* Exceptions Session.send raises instead of returning a response.
TransportErrors == {"ConnectionError", "ConnectTimeout", "TooManyRedirects"}

\* Classes that are requests.ConnectionError or a subclass of it.
ConnectionErrorClasses == {"ConnectionError", "SSLError", "ProxyError", "ConnectTimeout"}

IsConnectionError(e) == e \in ConnectionErrorClasses

\* One status of each class: 1xx, 2xx, 3xx, 4xx, 5xx.
Statuses == {101, 200, 304, 404, 500}

\* A JSON body that carries an error payload of the upstream API.
ErrorPayload == "{\"Error\":1}"

Bodies == {"{}", "[1,2]", "<a/>", ErrorPayload}

\* What Session.send does on one call: raise, or return a response.
Raises(e) == [raises |-> e, status_code |-> 0, text |-> ""]
Response(status, body) == [raises |-> "", status_code |-> status, text |-> body]

Transport ==
    {Raises(e) : e \in TransportErrors}
        \cup {Response(st, b) : st \in Statuses, b \in Bodies}

\* A test that lets client errors through (mutation of ok).
okBelow500(response) == response.status_code < 500

\* Response.ok: raise_for_status() raises for 400 <= status < 600 only.
ok(response) == ~(400 <= response.status_code /\ response.status_code < 600)

Digit(c) ==
    CASE c = "0" -> 0 [] c = "1" -> 1 [] c = "2" -> 2 [] c = "3" -> 3
      [] c = "4" -> 4 [] c = "5" -> 5 [] c = "6" -> 6 [] c = "7" -> 7
      [] c = "8" -> 8 [] c = "9" -> 9 [] OTHER -> -1

JSONDecodeError == [type |-> "JSONDecodeError", val |-> <<>>]

RECURSIVE ParseArray(_, _)
\* The items of a JSON array of one-digit numbers, after its "[".
ParseArray(s, acc) ==
    IF Len(s) < 2 \/ Digit(SubSeq(s, 1, 1)) < 0 THEN JSONDecodeError
    ELSE IF SubSeq(s, 2, 2) = "]"
         THEN IF Len(s) = 2
              THEN [type |-> "list", val |-> Append(acc, Digit(SubSeq(s, 1, 1)))]
              ELSE JSONDecodeError
    ELSE IF SubSeq(s, 2, 2) = ","
         THEN ParseArray(SubSeq(s, 3, Len(s)), Append(acc, Digit(SubSeq(s, 1, 1))))
    ELSE JSONDecodeError

RECURSIVE QuoteAt(_, _)
\* The position of the first double quote of s at or after i, 0 if none.
QuoteAt(s, i) ==
    IF i > Len(s) THEN 0
    ELSE IF SubSeq(s, i, i) = "\"" THEN i
    ELSE QuoteAt(s, i + 1)

\* A JSON object with one member, a string key and a one-digit number.
ParseObject(s) ==
    IF Len(s) < 2 \/ SubSeq(s, 2, 2) # "\"" THEN JSONDecodeError
    ELSE LET e == QuoteAt(s, 3)
         IN  IF \/ e = 0
                \/ Len(s) # e + 3
                \/ SubSeq(s, e + 1, e + 1) # ":"
                \/ Digit(SubSeq(s, e + 2, e + 2)) < 0
                \/ SubSeq(s, e + 3, e + 3) # "}"
             THEN JSONDecodeError
             ELSE [type |-> "dict",
                   val |-> << <<SubSeq(s, 3, e - 1), Digit(SubSeq(s, e + 2, e + 2))>> >>]

\* Response.json() on the bodies of the model: the parsed structure, or
\* JSONDecodeError when the text is not JSON.
json(text) ==
    IF text = "{}" THEN [type |-> "dict", val |-> <<>>]
    ELSE IF Len(text) > 0 /\ SubSeq(text, 1, 1) = "{" THEN ParseObject(text)
    ELSE IF text = "[]" THEN [type |-> "list", val |-> <<>>]
    ELSE IF Len(text) > 0 /\ SubSeq(text, 1, 1) = "["
         THEN ParseArray(SubSeq(text, 2, Len(text)), <<>>)
    ELSE JSONDecodeError

\* The request prepared at lines 115-117.
Request(method, params) == [method |-> upper(method), url |-> bea_url, params |-> params]

\* The state of the session opened at line 111 when the call is left:
\* close() at line 123 runs only after send() has returned.
SessionAtExit(t) == IF t.raises # "" THEN "open" ELSE "closed"

\* A body that reports the URL only once the response has been accepted
\* (mutation of Steps).
StepsPrintOnSuccess(t) ==
    IF t.raises # "" THEN <<"Session", "prepare", "send">>
    ELSE IF t.status_code \in 400..599
         THEN <<"Session", "prepare", "send", "close", "determine">>
         ELSE <<"Session", "prepare", "send", "close", "determine", "print">>

\* The statements of the body in the order they run: Session() at line 111,
\* prepare() at 115-117, send() at 120, close() at 123, print(response.url)
\* at 125 and the test of response.ok at 128-133.  A send() that raises
\* leaves the body at line 120.
Steps(t) ==
    IF t.raises # "" THEN <<"Session", "prepare", "send">>
    ELSE <<"Session", "prepare", "send", "close", "print", "determine">>

\* What print() at line 125 has written: the URL of the response, once for
\* each time the statement ran.
Printed(steps, params) ==
    LET n == Cardinality({i \in DOMAIN steps : steps[i] = "print"})
    IN  [i \in 1..n |-> [url |-> bea_url, params |-> params]]

\* A test that also looks into the body for an error payload (mutation of
\* Branch).
BranchInspecting(response) ==
    IF ok(response) /\ response.text = ErrorPayload THEN "raise"
    ELSE IF ok(response) /\ _format = "JSON" THEN "json"
    ELSE IF ok(response) /\ _format = "XML" THEN "text"
    ELSE "raise"

\* The two formats' branches exchanged (mutation of Branch).
BranchSwapped(response) ==
    IF ok(response) /\ _format = "XML" THEN "json"
    ELSE IF ok(response) /\ _format = "JSON" THEN "text"
    ELSE "raise"

\* The branch of lines 128-133 taken for a response.
Branch(response) ==
    IF ok(response) /\ _format = "JSON" THEN "json"
    ELSE IF ok(response) /\ _format = "XML" THEN "text"
    ELSE "raise"

\* A second send after a transport failure (mutation of Sent).
SentWithRetry(method, params, t) ==
    IF t.raises # ""
    THEN <<Request(method, params), Request(method, params)>>
    ELSE <<Request(method, params)>>

\* The requests handed to Session.send during one call: line 120 runs once,
\* whatever the transport then does.
Sent(method, params, t) == <<Request(method, params)>>

\* _make_request: the record of one call, given what the transport does.
_make_request(method, params, t) ==
    LET sent == Sent(method, params, t)
        base == [NoCall EXCEPT !.params = params,
                               !.requests = sent,
                               !.session = SessionAtExit(t),
                               !.before = _format,
                               !.steps = Steps(t)]
    IN  IF t.raises # ""
        THEN [base EXCEPT !.outcome = "raise", !.error = t.raises]
        ELSE LET seen == [base EXCEPT !.response = t,
                                      !.printed = Printed(Steps(t), params)]
             IN  CASE Branch(t) = "json" ->
                        IF json(t.text) = JSONDecodeError
                        THEN [seen EXCEPT !.outcome = "raise", !.error = "JSONDecodeError"]
                        ELSE [seen EXCEPT !.result = json(t.text)]
                   [] Branch(t) = "text" ->
                        [seen EXCEPT !.result = PyStr(t.text)]
                   [] OTHER ->
                        [seen EXCEPT !.outcome = "raise", !.error = "ConnectionError"]

\* A method of the client that builds `params` and returns _make_request's result.
Call(op, args, params, t) ==
    /\ last' = [_make_request("get", params, t) EXCEPT !.op = op, !.args = args]
    /\ UNCHANGED <<api_key, _format, authstate, this, other>>

----------------------------------------------------------------------------
(* Arguments callers pass. *)

Codes == <<"2011", "2012", "2013", "2014">>

Lists == {PyList(SubSeq(Codes, 1, n)) : n \in 1..MaxListLen}

Scalars == {PyStr("ALL"), PyStr("LAST5")}

\* Values of a filter argument: a sentinel or scalar string, or a list of codes.
FilterValues == Scalars \cup Lists

\* A sentinel and one list, for the runs that vary the transport.
SampleValues == {PyStr("ALL"), PyList(SubSeq(Codes, 1, MaxListLen))}

----------------------------------------------------------------------------
(* The metadata and dataset methods. *)

get_dataset_list_params ==
    [UserID |-> PyStr(api_key), method |-> PyStr("GETDATASETLIST"),
     ResultFormat |-> PyStr(_format)]

get_dataset_list(T) ==
    /\ Idle
    /\ \E t \in T : Call("get_dataset_list", <<>>, get_dataset_list_params, t)

get_parameters_list_params(dataset_name) ==
    [userid |-> PyStr(api_key), method |-> PyStr("GETPARAMETERLIST"),
     datasetname |-> dataset_name, resultformat |-> PyStr(_format)]

get_parameters_list(T) ==
    /\ Idle
    /\ \E dataset_name \in {PyStr("Regional"), PyStr("NIPA")}, t \in T :
        Call("get_parameters_list", [dataset_name |-> dataset_name],
             get_parameters_list_params(dataset_name), t)

\* A list left as it is (mutation of JoinIfList).
JoinIfListNever(x) == x

\* if isinstance(x, list): x = ",".join(x)
JoinIfList(x) == IF IsList(x) THEN Join(",", x) ELSE x

\* if x != "ALL": x = ",".join(x)
JoinUnlessALL(x) == IF PyNe(x, "ALL") THEN Join(",", x) ELSE x

gdp_by_industry_params(year, industry, frequency, table_id) ==
    [userid |-> PyStr(api_key), method |-> PyStr("GetData"),
     datasetname |-> PyStr("GDPbyIndustry"),
     year |-> JoinIfList(year),
     resultformat |-> PyStr(_format),
     industry |-> JoinIfList(industry),
     frequency |-> JoinIfList(frequency),
     tableid |-> JoinIfList(table_id)]

\* The arguments of the sample script's gdp_by_industry call.
SampleYears == PyList(<<"2019", "2018">>)
SampleIndustry == PyStr("52")
SampleFrequency == PyStr("A")

gdp_by_industry(V, T) ==
    /\ Idle
    /\ \E year \in V \cup {SampleYears}, industry \in V \cup {SampleIndustry},
       frequency \in V \cup {PyStr("A,Q,M"), SampleFrequency},
       table_id \in V, t \in T :
        Call("gdp_by_industry",
             [year |-> year, industry |-> industry, frequency |-> frequency,
              table_id |-> table_id],
             gdp_by_industry_params(year, industry, frequency, table_id), t)

underlying_gdp_by_industry_params(year, industry, frequency, table_id) ==
    [userid |-> PyStr(api_key), method |-> PyStr("GetData"),
     datasetname |-> PyStr("underlyingGDPbyIndustry"),
     year |-> JoinUnlessALL(year),
     resultformat |-> PyStr(_format),
     industry |-> industry,
     frequency |-> Join(",", frequency),
     tableid |-> table_id]

underlying_gdp_by_industry(V, T) ==
    /\ Idle
    /\ \E year \in V, industry \in V, frequency \in V \cup {PyStr("A,Q,M")},
       table_id \in V, t \in T :
        Call("underlying_gdp_by_industry",
             [year |-> year, industry |-> industry, frequency |-> frequency,
              table_id |-> table_id],
             underlying_gdp_by_industry_params(year, industry, frequency, table_id), t)

international_trade_services_params(type_of_service, trade_direction, affiliation, year, area_or_country) ==
    [userid |-> PyStr(api_key), method |-> PyStr("GetData"),
     datasetname |-> PyStr("IntlServTrade"),
     year |-> JoinUnlessALL(year),
     resultformat |-> PyStr(_format),
     typeofservice |-> type_of_service,
     tradedirection |-> trade_direction,
     affiliation |-> affiliation,
     areaorcountry |-> JoinIfList(area_or_country)]

\* A method that refuses two multi-valued dimensions at once, as the
\* upstream documents (mutation of international_trade_services).
international_trade_services_Validating(V, T) ==
    /\ Idle
    /\ \E type_of_service \in V, trade_direction \in V, affiliation \in V, year \in V,
       area_or_country \in V \cup {PyStr("AllCountries")}, t \in T :
        LET args == [type_of_service |-> type_of_service,
                     trade_direction |-> trade_direction,
                     affiliation |-> affiliation, year |-> year,
                     area_or_country |-> area_or_country]
        IN  IF /\ IsList(type_of_service) /\ Len(type_of_service.val) > 1
               /\ IsList(area_or_country) /\ Len(area_or_country.val) > 1
            THEN /\ last' = [NoCall EXCEPT !.op = "international_trade_services",
                                           !.args = args,
                                           !.outcome = "raise",
                                           !.error = "ValueError",
                                           !.before = _format]
                 /\ UNCHANGED <<api_key, _format, authstate, this, other>>
            ELSE Call("international_trade_services", args,
                      international_trade_services_params(
                          type_of_service, trade_direction, affiliation, year,
                          area_or_country), t)

international_trade_services(V, T) ==
    /\ Idle
    /\ \E type_of_service \in V, trade_direction \in V, affiliation \in V, year \in V,
       area_or_country \in V \cup {PyStr("AllCountries")}, t \in T :
        Call("international_trade_services",
             [type_of_service |-> type_of_service, trade_direction |-> trade_direction,
              affiliation |-> affiliation, year |-> year,
              area_or_country |-> area_or_country],
             international_trade_services_params(type_of_service, trade_direction,
                                                 affiliation, year, area_or_country), t)

national_income_and_product_accounts_params(table_name, year, frequency) ==
    [userid |-> PyStr(api_key), method |-> PyStr("GetData"),
     datasetname |-> PyStr("NIPA"),
     year |-> JoinIfList(year),
     resultformat |-> PyStr(_format),
     frequency |-> JoinIfList(frequency),
     tablename |-> JoinIfList(table_name)]

national_income_and_product_accounts(V, T) ==
    /\ Idle
    /\ \E table_name \in V, year \in V, frequency \in V \cup {PyStr("A,Q,M")}, t \in T :
        Call("national_income_and_product_accounts",
             [table_name |-> table_name, year |-> year, frequency |-> frequency],
             national_income_and_product_accounts_params(table_name, year, frequency), t)

national_income_and_product_accounts_detail_params(table_name, year, frequency) ==
    [userid |-> PyStr(api_key), method |-> PyStr("GetData"),
     datasetname |-> PyStr("NIUnderlyingDetail"),
     year |-> JoinIfList(year),
     resultformat |-> PyStr(_format),
     frequency |-> JoinIfList(frequency),
     tablename |-> JoinIfList(table_name)]

national_income_and_product_accounts_detail(V, T) ==
    /\ Idle
    /\ \E table_name \in V, year \in V, frequency \in V \cup {PyStr("A,Q,M")}, t \in T :
        Call("national_income_and_product_accounts_detail",
             [table_name |-> table_name, year |-> year, frequency |-> frequency],
             national_income_and_product_accounts_detail_params(table_name, year, frequency), t)

\* Parameters whose dataset name follows the table asked for (mutation of
\* fixed_assets_params).
fixed_assets_params_NameFromTable(table_name, year) ==
    [userid |-> PyStr(api_key), method |-> PyStr("GetData"),
     datasetname |-> IF IsList(table_name) THEN PyStr("FixedAssets") ELSE table_name,
     year |-> JoinIfList(year),
     resultformat |-> PyStr(_format),
     tablename |-> JoinIfList(table_name)]

fixed_assets_params(table_name, year) ==
    [userid |-> PyStr(api_key), method |-> PyStr("GetData"),
     datasetname |-> PyStr("FixedAssets"),
     year |-> JoinIfList(year),
     resultformat |-> PyStr(_format),
     tablename |-> JoinIfList(table_name)]

fixed_assets(V, T) ==
    /\ Idle
    /\ \E table_name \in V, year \in V, t \in T :
        Call("fixed_assets", [table_name |-> table_name, year |-> year],
             fixed_assets_params(table_name, year), t)

\* The two words exchanged (mutation of YesNo).
YesNoInverted(flag) == IF flag THEN PyStr("No") ELSE PyStr("Yes")

\* if footnotes: footnotes = "Yes" else: footnotes = "No"
YesNo(flag) == IF flag THEN PyStr("Yes") ELSE PyStr("No")

\* int(flag) of a bool
int(flag) == IF flag THEN PyInt(1) ELSE PyInt(0)

\* Values of the two required plain-string arguments of the MNE methods.
Directions == {PyStr("outward")}
Classifications == {PyStr("country")}

direct_investments_and_multinational_enterprises_params(direction_of_investment, classification, series_id, year, country, industry, footnotes) ==
    [userid |-> PyStr(api_key), method |-> PyStr("GetData"),
     datasetname |-> PyStr("MNE"),
     year |-> JoinIfList(year),
     country |-> JoinIfList(country),
     industry |-> JoinIfList(industry),
     seriesid |-> JoinIfList(series_id),
     classification |-> classification,
     directionofinvestment |-> direction_of_investment,
     resultformat |-> PyStr(_format),
     getfootnotes |-> YesNo(footnotes)]

direct_investments_and_multinational_enterprises(V, T) ==
    /\ Idle
    /\ \E direction_of_investment \in Directions, classification \in Classifications,
       series_id \in V, year \in V, country \in V, industry \in V,
       footnotes \in BOOLEAN, t \in T :
        Call("direct_investments_and_multinational_enterprises",
             [direction_of_investment |-> direction_of_investment,
              classification |-> classification, series_id |-> series_id,
              year |-> year, country |-> country, industry |-> industry,
              footnotes |-> footnotes],
             direct_investments_and_multinational_enterprises_params(
                 direction_of_investment, classification, series_id, year, country,
                 industry, footnotes), t)

activities_investments_and_multinational_enterprises_params(direction_of_investment, classification, ownership_level, non_bank_affilates_only, series_id, states, year, country, industry, footnotes) ==
    [userid |-> PyStr(api_key), method |-> PyStr("GetData"),
     datasetname |-> PyStr("MNE"),
     year |-> JoinIfList(year),
     nonbankaffiliatesonly |-> int(non_bank_affilates_only),
     ownershiplevel |-> int(ownership_level),
     state |-> JoinIfList(states),
     country |-> JoinIfList(country),
     industry |-> JoinIfList(industry),
     seriesid |-> JoinIfList(series_id),
     classification |-> classification,
     directionofinvestment |-> direction_of_investment,
     resultformat |-> PyStr(_format),
     getfootnotes |-> YesNo(footnotes)]

activities_investments_and_multinational_enterprises(V, T) ==
    /\ Idle
    /\ \E direction_of_investment \in Directions, classification \in Classifications,
       ownership_level \in BOOLEAN, non_bank_affilates_only \in BOOLEAN,
       series_id \in V, states \in V, year \in V, country \in V, industry \in V,
       footnotes \in BOOLEAN, t \in T :
        Call("activities_investments_and_multinational_enterprises",
             [direction_of_investment |-> direction_of_investment,
              classification |-> classification,
              ownership_level |-> ownership_level,
              non_bank_affilates_only |-> non_bank_affilates_only,
              series_id |-> series_id, states |-> states, year |-> year,
              country |-> country, industry |-> industry, footnotes |-> footnotes],
             activities_investments_and_multinational_enterprises_params(
                 direction_of_investment, classification, ownership_level,
                 non_bank_affilates_only, series_id, states, year, country,
                 industry, footnotes), t)

international_transactions_params(indicator, area_or_country, year, frequency) ==
    [userid |-> PyStr(api_key), method |-> PyStr("GetData"),
     datasetname |-> PyStr("ITA"),
     indicator |-> indicator,
     year |-> JoinIfList(year),
     frequency |-> JoinIfList(frequency),
     areaorcountry |-> JoinIfList(area_or_country),
     resultformat |-> PyStr(_format)]

international_transactions(V, T) ==
    /\ Idle
    /\ \E indicator \in V, area_or_country \in V \cup {PyStr("AllCountries")},
       year \in V, frequency \in V, t \in T :
        Call("international_transactions",
             [indicator |-> indicator, area_or_country |-> area_or_country,
              year |-> year, frequency |-> frequency],
             international_transactions_params(indicator, area_or_country, year,
                                               frequency), t)

international_investments_positions_params(type_of_investment, component, year, frequency) ==
    [userid |-> PyStr(api_key), method |-> PyStr("GetData"),
     datasetname |-> PyStr("IIP"),
     year |-> JoinIfList(year),
     frequency |-> JoinIfList(frequency),
     component |-> JoinIfList(component),
     typeofinvestment |-> JoinIfList(type_of_investment),
     resultformat |-> PyStr(_format)]

international_investments_positions(V, T) ==
    /\ Idle
    /\ \E type_of_investment \in V, component \in V, year \in V, frequency \in V,
       t \in T :
        Call("international_investments_positions",
             [type_of_investment |-> type_of_investment, component |-> component,
              year |-> year, frequency |-> frequency],
             international_investments_positions_params(type_of_investment,
                                                        component, year, frequency), t)

input_output_statstics_params(table_id, year) ==
    [userid |-> PyStr(api_key), method |-> PyStr("GetData"),
     datasetname |-> PyStr("InputOutput"),
     year |-> JoinIfList(year),
     tableid |-> Join(",", table_id),
     resultformat |-> PyStr(_format)]

input_output_statstics(V, T) ==
    /\ Idle
    /\ \E table_id \in V, year \in V, t \in T :
        Call("input_output_statstics", [table_id |-> table_id, year |-> year],
             input_output_statstics_params(table_id, year), t)

\* Values of regional's line_code: Union[int, str].
LineCodes == {PyInt(1), PyStr("ALL")}

\* Parameters that always ask for JSON (mutation of regional_params).
regional_params_JsonOnly(table_name, line_code, geo_fips, year) ==
    [userid |-> PyStr(api_key), method |-> PyStr("GetData"),
     datasetname |-> PyStr("Regional"),
     year |-> JoinIfList(year),
     TableName |-> Join(",", table_name),
     GeoFips |-> JoinIfList(geo_fips),
     LineCode |-> line_code,
     resultformat |-> PyStr("JSON")]

regional_params(table_name, line_code, geo_fips, year) ==
    [userid |-> PyStr(api_key), method |-> PyStr("GetData"),
     datasetname |-> PyStr("Regional"),
     year |-> JoinIfList(year),
     TableName |-> Join(",", table_name),
     GeoFips |-> JoinIfList(geo_fips),
     LineCode |-> line_code,
     resultformat |-> PyStr(_format)]

\* The arguments of the sample script's regional call.
SampleTable == PyList(<<"CAINC1">>)
SampleGeoFips == PyList(<<"COUNTY">>)
SampleRegionalYears == PyList(<<"2012", "2013">>)

regional(V, T) ==
    /\ Idle
    /\ \E table_name \in V \cup {PyStr("CAINC1"), SampleTable},
       line_code \in LineCodes, geo_fips \in V \cup {SampleGeoFips},
       year \in V \cup {SampleRegionalYears}, t \in T :
        Call("regional",
             [table_name |-> table_name, line_code |-> line_code,
              geo_fips |-> geo_fips, year |-> year],
             regional_params(table_name, line_code, geo_fips, year), t)

\* The filter arguments of each dataset method, each with the params key
\* the method sends it under.
Filters(op) ==
    CASE op = "gdp_by_industry" ->
            [year |-> "year", industry |-> "industry", frequency |-> "frequency",
             table_id |-> "tableid"]
      [] op = "underlying_gdp_by_industry" ->
            [year |-> "year", industry |-> "industry", frequency |-> "frequency",
             table_id |-> "tableid"]
      [] op = "international_trade_services" ->
            [type_of_service |-> "typeofservice", trade_direction |-> "tradedirection",
             affiliation |-> "affiliation", year |-> "year",
             area_or_country |-> "areaorcountry"]
      [] op = "national_income_and_product_accounts" ->
            [table_name |-> "tablename", year |-> "year", frequency |-> "frequency"]
      [] op = "national_income_and_product_accounts_detail" ->
            [table_name |-> "tablename", year |-> "year", frequency |-> "frequency"]
      [] op = "fixed_assets" ->
            [table_name |-> "tablename", year |-> "year"]
      [] op = "direct_investments_and_multinational_enterprises" ->
            [series_id |-> "seriesid", year |-> "year", country |-> "country",
             industry |-> "industry"]
      [] op = "activities_investments_and_multinational_enterprises" ->
            [series_id |-> "seriesid", states |-> "state", year |-> "year",
             country |-> "country", industry |-> "industry"]
      [] op = "international_transactions" ->
            [indicator |-> "indicator", area_or_country |-> "areaorcountry",
             year |-> "year", frequency |-> "frequency"]
      [] op = "international_investments_positions" ->
            [type_of_investment |-> "typeofinvestment", component |-> "component",
             year |-> "year", frequency |-> "frequency"]
      [] op = "input_output_statstics" ->
            [table_id |-> "tableid", year |-> "year"]
      [] op = "regional" ->
            [table_name |-> "TableName", geo_fips |-> "GeoFips", year |-> "year"]
      [] OTHER -> <<>>

DatasetMethods ==
    {"gdp_by_industry", "underlying_gdp_by_industry", "international_trade_services",
     "national_income_and_product_accounts",
     "national_income_and_product_accounts_detail", "fixed_assets",
     "direct_investments_and_multinational_enterprises",
     "activities_investments_and_multinational_enterprises",
     "international_transactions", "international_investments_positions",
     "input_output_statstics", "regional"}

MetadataMethods == {"get_dataset_list", "get_parameters_list"}

\* Every dataset method, its filters drawn from V, against the transport
\* behaviours T.
DatasetCall(V, T) ==
    \/ gdp_by_industry(V, T)
    \/ underlying_gdp_by_industry(V, T)
    \/ international_trade_services(V, T)
    \/ national_income_and_product_accounts(V, T)
    \/ national_income_and_product_accounts_detail(V, T)
    \/ fixed_assets(V, T)
    \/ direct_investments_and_multinational_enterprises(V, T)
    \/ activities_investments_and_multinational_enterprises(V, T)
    \/ international_transactions(V, T)
    \/ international_investments_positions(V, T)
    \/ input_output_statstics(V, T)
    \/ regional(V, T)

----------------------------------------------------------------------------
(* Specifications. *)

\* Every operation, with each filter a sentinel or a list, against every
\* behaviour of the transport.
Next ==
    \/ CallerContinues
    \/ \E value \in FormatInputs : format_setter(value)
    \/ get_dataset_list(Transport)
    \/ get_parameters_list(Transport)
    \/ DatasetCall(SampleValues, Transport)

Spec == Init /\ [][Next]_vars

\* The transport answering 200 with a JSON body.
Answers == {Response(200, "{}")}

\* Every operation, with each filter drawn from all of FilterValues, against
\* a transport that answers.
NextParams ==
    \/ CallerContinues
    \/ \E value \in FormatInputs : format_setter(value)
    \/ get_dataset_list(Answers)
    \/ get_parameters_list(Answers)
    \/ DatasetCall(FilterValues, Answers)

SpecParams == Init /\ [][NextParams]_vars

\* A program that constructs two clients: __init__ has run once for each.
InitTwo ==
    /\ api_key \in ApiKeys
    /\ _format = "JSON"
    /\ authstate = (api_key # "")
    /\ last = NoCall
    /\ this = 1
    /\ other \in {[api_key |-> key, _format |-> "JSON", authstate |-> (key # "")] :
                      key \in ApiKeys}

\* The caller turns to its other client: the next method runs with self
\* bound to that instance.  Every field the class assigns is an attribute
\* of self, so the two instances exchange places and nothing else moves.
Switch ==
    /\ Idle
    /\ this' = 3 - this
    /\ api_key' = other.api_key
    /\ _format' = other._format
    /\ authstate' = other.authstate
    /\ other' = [api_key |-> api_key, _format |-> _format, authstate |-> authstate]
    /\ UNCHANGED last

\* The transport answering or refusing.
AnswersOrFails == {Response(200, "{}"), Response(404, "{}"), Raises("ConnectionError")}

NextTwo ==
    \/ CallerContinues
    \/ Switch
    \/ \E value \in FormatInputs : format_setter(value)
    \/ get_dataset_list(AnswersOrFails)
    \/ get_parameters_list(AnswersOrFails)
    \/ DatasetCall(SampleValues, AnswersOrFails)

SpecTwo == InitTwo /\ [][NextTwo]_vars

----------------------------------------------------------------------------
(* Properties of parameter assembly (checked under SpecParams). *)

\* The argument of the last call named a, and the params value sent for it.
ArgOf(a) == last.args[a]
SentFor(a) == last.params[Filters(last.op)[a]]

\* C1: in every dataset method, a filter argument given as a list is sent as
\* the comma-join of its elements in input order (["2011","2012"] is sent as
\* "2011,2012"), and never as an unjoined list.
C1_ListsAreCommaJoined ==
    \A a \in DOMAIN Filters(last.op) :
        /\ IsList(ArgOf(a)) => SentFor(a) = PyStr(JoinSeq(",", ArgOf(a).val))
        /\ ArgOf(a) = PyList(<<"2011", "2012">>) => SentFor(a) = PyStr("2011,2012")
        /\ SentFor(a).type # "list"

\* C2: in every dataset method, a filter argument given as the sentinel "ALL"
\* is sent as the literal string "ALL".
C2_SentinelIsSentAsIs ==
    \A a \in DOMAIN Filters(last.op) :
        ArgOf(a) = PyStr("ALL") => SentFor(a) = PyStr("ALL")

\* C3: in every dataset method, a filter argument given as a scalar string
\* other than "ALL" (a default such as "A,Q,M", "LAST5", "CAINC1") is sent
\* unchanged.
C3_ScalarsAreSentUnchanged ==
    \A a \in DOMAIN Filters(last.op) :
        (ArgOf(a).type = "str" /\ ArgOf(a).val # "ALL") => SentFor(a) = ArgOf(a)

----------------------------------------------------------------------------
(* Properties of the format property (checked under Spec). *)

\* Letters in their two cases.
LetterCases ==
    {<<"j", "J">>, <<"s", "S">>, <<"o", "O">>, <<"n", "N">>, <<"x", "X">>,
     <<"m", "M">>, <<"l", "L">>}

SameLetter(c, d) == c = d \/ <<c, d>> \in LetterCases \/ <<d, c>> \in LetterCases

\* a and b are equal up to the case of their letters.
SameIgnoringCase(a, b) ==
    /\ Len(a) = Len(b)
    /\ \A i \in 1..Len(a) : SameLetter(SubSeq(a, i, i), SubSeq(b, i, i))

FormatSet == last.op = "format.setter"

ValidFormatInput(value) ==
    SameIgnoringCase(value, "JSON") \/ SameIgnoringCase(value, "XML")

\* C4: the format setter, given a string that is not "JSON" or "XML" in any
\* case, raises ValueError and leaves the format as it was before the call.
C4_InvalidFormatRejected ==
    (FormatSet /\ ~ValidFormatInput(last.args.value)) =>
        /\ last.outcome = "raise"
        /\ last.error = "ValueError"
        /\ format = last.before

\* An invalid value was assigned while the format was XML.
C4_Witness ==
    /\ FormatSet
    /\ last.args.value = "csv"
    /\ last.before = "XML"
    /\ last.outcome = "raise"

\* The format changes only in a format assignment that returns.
FormatChangesOnlyBySuccessfulSet ==
    [][format' # format => (last'.op = "format.setter" /\ last'.outcome = "return")]_vars

\* After an assignment of a case variant of "JSON" or "XML", the format
\* reads as the uppercase word.
ValidFormatNormalised ==
    (FormatSet /\ ValidFormatInput(last.args.value)) =>
        /\ last.outcome = "return"
        /\ SameIgnoringCase(last.args.value, "JSON") => format = "JSON"
        /\ SameIgnoringCase(last.args.value, "XML") => format = "XML"

\* C5: the format setter, given "JSON" or "XML" in any case, stores the
\* uppercase form, and every read of format returns that value until the
\* next assignment that succeeds.
C5_ValidFormatStoredUppercase ==
    []ValidFormatNormalised /\ FormatChangesOnlyBySuccessfulSet

\* A mixed-case "xml" was assigned and the format reads "XML".
C5_Witness ==
    /\ FormatSet
    /\ last.args.value = "xMl"
    /\ last.outcome = "return"
    /\ format = "XML"

----------------------------------------------------------------------------
(* Properties of _make_request (checked under Spec). *)

\* The caller has just made a call that reached _make_request.
Dispatched == last.op \in DatasetMethods \cup MetadataMethods

\* The transport returned a response to the last call.
Responded == Dispatched /\ last.response # NoResponse

\* The last call raised requests.ConnectionError and handed back no value.
FailedWithConnectionError ==
    /\ last.outcome = "raise"
    /\ IsConnectionError(last.error)
    /\ last.result = None

\* C6 as stated: whenever the response's status is outside 200..299 (1xx and
\* 3xx included), _make_request raises requests.ConnectionError, returns no
\* value, and the session has been closed.
C6_Non2xxRaisesConnectionError ==
    (Responded /\ last.response.status_code \notin 200..299) =>
        /\ FailedWithConnectionError
        /\ last.session = "closed"

\* C6 as amended: whenever the response's status is in 400..599,
\* _make_request raises requests.ConnectionError, returns no value, and the
\* session has been closed.
C6_ErrorStatusRaisesConnectionError ==
    (Responded /\ last.response.status_code \in 400..599) =>
        /\ FailedWithConnectionError
        /\ last.session = "closed"

\* A 404 response was turned into ConnectionError, the session closed.
C6_Witness ==
    /\ Responded
    /\ last.response.status_code = 404
    /\ FailedWithConnectionError
    /\ last.session = "closed"

\* C7: the session opened by _make_request has been closed on every exit
\* path of the call, also when sending the request raises.
C7_SessionClosedOnEveryExit ==
    Dispatched => last.session = "closed"

\* The structure each JSON body of the model denotes.
Parsed(body) ==
    CASE body = "{}" -> [type |-> "dict", val |-> <<>>]
      [] body = "[1,2]" -> [type |-> "list", val |-> <<1, 2>>]

JSONBodies == {"{}", "[1,2]"}

\* C8: for a response with a successful status, _make_request returns the
\* parsed JSON structure of the body when the format is JSON, and the body
\* text itself when the format is XML.
C8_SuccessReturnsParsedOrRaw ==
    (Responded /\ last.response.status_code \in 200..299) =>
        /\ (last.before = "JSON" /\ last.response.text \in JSONBodies) =>
              (last.outcome = "return" /\ last.result = Parsed(last.response.text))
        /\ last.before = "XML" =>
              (last.outcome = "return" /\ last.result = PyStr(last.response.text))

\* With the format XML, a body that is valid JSON came back as its text.
C8_Witness ==
    /\ Responded
    /\ last.response.status_code = 200
    /\ last.before = "XML"
    /\ last.response.text = "[1,2]"
    /\ last.outcome = "return"
    /\ last.result = PyStr("[1,2]")

\* The last call did not get a usable response: the transport raised, or
\* the status was a client or server error.
Failed ==
    \/ last.response = NoResponse
    \/ last.response.status_code \in 400..599

\* C9: every call of a dataset or metadata method sends exactly one GET
\* request, with the params the method built; a failed call sends no second
\* request and raises to its caller.
C9_ExactlyOneGetPerCall ==
    Dispatched =>
        /\ Len(last.requests) = 1
        /\ last.requests[1].method = "GET"
        /\ last.requests[1].url = bea_url
        /\ last.requests[1].params = last.params
        /\ Failed => last.outcome = "raise"

\* A dataset call failed in the transport after its one request.
C9_Witness ==
    /\ last.op = "gdp_by_industry"
    /\ last.response = NoResponse
    /\ last.outcome = "raise"
    /\ Len(last.requests) = 1

\* C10: the only errors a caller receives are ValueError from the format
\* setter and requests.ConnectionError from _make_request and the methods
\* that use it, also when the transport fails and when the body of a
\* successful response is not JSON.
C10_OnlyTwoErrorKinds ==
    last.outcome = "raise" =>
        \/ FormatSet /\ last.error = "ValueError"
        \/ Dispatched /\ IsConnectionError(last.error)

----------------------------------------------------------------------------
(* Properties of the flags of the MNE methods (checked under SpecParams). *)

Direct == "direct_investments_and_multinational_enterprises"
Activities == "activities_investments_and_multinational_enterprises"

\* C11: both direct-investment methods send footnotes as getfootnotes "Yes"
\* for True and "No" for False; the activities method sends ownership_level
\* and non_bank_affilates_only as the integers 1 and 0 under ownershiplevel
\* and nonbankaffiliatesonly, each key following its own argument.
C11_FlagEncodings ==
    /\ last.op \in {Direct, Activities} =>
          last.params.getfootnotes =
              (IF last.args.footnotes THEN PyStr("Yes") ELSE PyStr("No"))
    /\ last.op = Activities =>
          /\ last.params.ownershiplevel =
                 PyInt(IF last.args.ownership_level THEN 1 ELSE 0)
          /\ last.params.nonbankaffiliatesonly =
                 PyInt(IF last.args.non_bank_affilates_only THEN 1 ELSE 0)

\* An activities call whose three flags differ from one another.
C11_Witness ==
    /\ last.op = Activities
    /\ ~last.args.footnotes /\ last.args.ownership_level
    /\ ~last.args.non_bank_affilates_only
    /\ last.params.getfootnotes = PyStr("No")
    /\ last.params.ownershiplevel = PyInt(1)
    /\ last.params.nonbankaffiliatesonly = PyInt(0)

----------------------------------------------------------------------------
(* Properties of the parameters every method sends. *)

\* C12: every request of every method, the two metadata methods included,
\* carries the API key under the key userid and the client's format under
\* the key resultformat, spelled exactly so.
C12_UseridAndResultformatOnEveryRequest ==
    Dispatched =>
        /\ {"userid", "resultformat"} \subseteq DOMAIN last.params
        /\ last.params.userid = PyStr(api_key)
        /\ last.params.resultformat = PyStr(format)

\* C13: in the params a dataset method hands to _make_request, every value
\* is a scalar string: none is a list and none is an integer.
C13_EveryValueIsAString ==
    last.op \in DatasetMethods =>
        \A k \in DOMAIN last.params : last.params[k].type = "str"

----------------------------------------------------------------------------
(* The two end-to-end scenarios. *)

\* The caller has just made the sample script's gdp_by_industry call.
GdpScenario ==
    /\ last.op = "gdp_by_industry"
    /\ last.args = [year |-> PyList(<<"2019", "2018">>), industry |-> PyStr("52"),
                    frequency |-> PyStr("A"), table_id |-> PyStr("ALL")]

\* C14: gdp_by_industry(year=["2019","2018"], industry="52", frequency="A"),
\* table_id at its default, builds params with datasetname "GDPbyIndustry",
\* year "2019,2018", industry "52", frequency "A", tableid "ALL", and sends
\* exactly one GET request carrying those params.
C14_GdpByIndustryScenario ==
    GdpScenario =>
        /\ last.params.datasetname = PyStr("GDPbyIndustry")
        /\ last.params.year = PyStr("2019,2018")
        /\ last.params.industry = PyStr("52")
        /\ last.params.frequency = PyStr("A")
        /\ last.params.tableid = PyStr("ALL")
        /\ Len(last.requests) = 1
        /\ last.requests[1].method = "GET"
        /\ last.requests[1].params = last.params

\* The scenario's call was made and answered.
C14_Witness ==
    /\ GdpScenario
    /\ last.params.year = PyStr("2019,2018")
    /\ last.outcome = "return"

\* The caller has just made the sample script's regional call.
RegionalScenario ==
    /\ last.op = "regional"
    /\ last.args = [table_name |-> PyList(<<"CAINC1">>), line_code |-> PyInt(1),
                    geo_fips |-> PyList(<<"COUNTY">>),
                    year |-> PyList(<<"2012", "2013">>)]

\* C15: regional(table_name=["CAINC1"], line_code=1, geo_fips=["COUNTY"],
\* year=["2012","2013"]) builds params with datasetname "Regional",
\* TableName "CAINC1", GeoFips "COUNTY", LineCode 1, year "2012,2013".
C15_RegionalScenario ==
    RegionalScenario =>
        /\ last.params.datasetname = PyStr("Regional")
        /\ last.params.TableName = PyStr("CAINC1")
        /\ last.params.GeoFips = PyStr("COUNTY")
        /\ last.params.LineCode = PyInt(1)
        /\ last.params.year = PyStr("2012,2013")

\* The scenario's call was made, its one-element lists sent as their element.
C15_Witness ==
    /\ RegionalScenario
    /\ last.params.GeoFips = PyStr("COUNTY")
    /\ last.params.LineCode = PyInt(1)

----------------------------------------------------------------------------
(* Upstream errors inside a successful response (checked under Spec). *)

\* The transport answered the last call with a successful status and the
\* error payload as body.
ErrorPayloadAnswered ==
    /\ Responded
    /\ last.response.status_code \in 200..299
    /\ last.response.text = ErrorPayload

\* C16: a successful response whose JSON body carries an upstream error
\* payload is returned like any other successful body, parsed when the
\* format is JSON; _make_request raises nothing for it.
C16_ErrorPayloadPassesThrough ==
    ErrorPayloadAnswered =>
        /\ last.outcome = "return"
        /\ last.error = ""
        /\ last.before = "JSON" =>
              last.result = [type |-> "dict", val |-> << <<"Error", 1>> >>]
        /\ last.before = "XML" => last.result = PyStr(ErrorPayload)

\* An error payload came back to the caller as a parsed dict.
C16_Witness ==
    /\ ErrorPayloadAnswered
    /\ last.before = "JSON"
    /\ last.outcome = "return"
    /\ last.result.type = "dict"

----------------------------------------------------------------------------
(* The API key and the authorized flag (checked under Spec). *)

\* The flag is true exactly when the key is non-empty.
AuthorizedIffKey == authstate = (api_key # "")

\* No operation changes the key or the flag.
KeyAndFlagKept == [][api_key' = api_key /\ authstate' = authstate]_vars

\* C17: authstate is true exactly when the API key given at construction is
\* non-empty, and after any sequence of format changes and data-method calls,
\* successful or failed, the key and the flag have their construction-time
\* values.
C17_AuthorizedFlagFixedAtConstruction == []AuthorizedIffKey /\ KeyAndFlagKept

\* After a format change and a failed data call, the key and flag stand.
C17_Witness ==
    /\ last.op = "gdp_by_industry"
    /\ last.outcome = "raise"
    /\ format = "XML"
    /\ api_key = "KEY"
    /\ authstate

----------------------------------------------------------------------------
(* No validation of filter combinations (checked under Spec). *)

\* C18: no dataset method rejects a combination of filter values: whatever
\* mix of "ALL" and lists its filters are given, the method builds the params
\* and sends the request; if the call raises, it is the transport or the
\* response that failed, after the request was sent.
C18_NoCombinationRejected ==
    last.op \in DatasetMethods =>
        /\ \A a \in DOMAIN Filters(last.op) :
              Filters(last.op)[a] \in DOMAIN last.params
        /\ Len(last.requests) = 1
        /\ last.requests[1].params = last.params
        /\ last.outcome = "raise" =>
              \/ last.response = NoResponse /\ last.error \in TransportErrors
              \/ last.response # NoResponse
                    /\ last.error \in {"ConnectionError", "JSONDecodeError"}

\* international_trade_services was given multi-element lists for both
\* type_of_service and area_or_country, and its request was sent and answered.
C18_Witness ==
    /\ last.op = "international_trade_services"
    /\ IsList(last.args.type_of_service) /\ Len(last.args.type_of_service.val) > 1
    /\ IsList(last.args.area_or_country) /\ Len(last.args.area_or_country.val) > 1
    /\ Len(last.requests) = 1
    /\ last.outcome = "return"

----------------------------------------------------------------------------
(* The URL is reported before the response is judged (checked under Spec). *)

\* The positions of a statement in the body of the last call.
StepsOf(name) == {i \in DOMAIN last.steps : last.steps[i] = name}

\* C19: in every call in which the transport returned a response, the
\* resolved request URL is printed exactly once, after the request was sent
\* and before the response is judged a success or a failure, whichever way
\* that judgement goes.
C19_UrlPrintedOnceBeforeDetermination ==
    Responded =>
        /\ Cardinality(StepsOf("print")) = 1
        /\ Cardinality(StepsOf("send")) = 1
        /\ Cardinality(StepsOf("determine")) = 1
        /\ \A p \in StepsOf("print") :
              /\ \A s \in StepsOf("send") : s < p
              /\ \A d \in StepsOf("determine") : p < d
        /\ last.printed = <<[url |-> bea_url, params |-> last.params]>>

\* A call answered with an error status raised ConnectionError after the URL
\* had been printed.
C19_Witness ==
    /\ Responded
    /\ last.response.status_code \in 400..599
    /\ last.outcome = "raise"
    /\ last.error = "ConnectionError"
    /\ Len(last.printed) = 1

----------------------------------------------------------------------------
(* The format asked for is the format read (checked under Spec). *)

\* The last call was a dataset method's, and the format it ran under is f.
DatasetCallUnder(f) == last.op \in DatasetMethods /\ last.before = f

\* What a dataset call asks for is how its answer is read.
SentFormatIsReadFormat ==
    last.op \in DatasetMethods =>
        /\ last.before \in {"JSON", "XML"}
        /\ last.params.resultformat = PyStr(last.before)
        /\ Responded /\ last.outcome = "return" =>
              /\ last.before = "JSON" => last.result = json(last.response.text)
              /\ last.before = "XML" => last.result = PyStr(last.response.text)

\* A dataset call runs under the format the client holds when it is made,
\* and leaves that format alone.
CallUsesCurrentFormat ==
    [][last'.op \in DatasetMethods =>
          /\ last'.before = _format
          /\ _format' = _format]_vars

\* C20: the resultformat a dataset method sends equals the format by which
\* its response is interpreted (JSON: parsed, XML: raw text), and a call made
\* after a successful format change sends and interprets with the new format.
C20_SentFormatMatchesInterpretation ==
    []SentFormatIsReadFormat /\ CallUsesCurrentFormat

\* After the format was changed to XML, a dataset call asked for XML and
\* returned the raw text of the answer.
C20_Witness ==
    /\ DatasetCallUnder("XML")
    /\ _format = "XML"
    /\ last.op = "regional"
    /\ last.params.resultformat = PyStr("XML")
    /\ Responded /\ last.outcome = "return"
    /\ last.result = PyStr(last.response.text)

----------------------------------------------------------------------------
(* The method and datasetname parameters (checked under SpecParams). *)

\* The dataset each dataset method is expected to name.
DatasetNameOf(op) ==
    CASE op = "gdp_by_industry" -> "GDPbyIndustry"
      [] op = "underlying_gdp_by_industry" -> "underlyingGDPbyIndustry"
      [] op = "international_trade_services" -> "IntlServTrade"
      [] op = "national_income_and_product_accounts" -> "NIPA"
      [] op = "national_income_and_product_accounts_detail" -> "NIUnderlyingDetail"
      [] op = "fixed_assets" -> "FixedAssets"
      [] op = "direct_investments_and_multinational_enterprises" -> "MNE"
      [] op = "activities_investments_and_multinational_enterprises" -> "MNE"
      [] op = "international_transactions" -> "ITA"
      [] op = "international_investments_positions" -> "IIP"
      [] op = "input_output_statstics" -> "InputOutput"
      [] op = "regional" -> "Regional"

\* C21: the method parameter is "GetData" for every dataset method,
\* "GETDATASETLIST" for get_dataset_list and "GETPARAMETERLIST" for
\* get_parameters_list, and every dataset method sends the one datasetname
\* that belongs to it, whatever its arguments and the client's format are.
C21_MethodAndDatasetNameFixed ==
    /\ last.op \in DatasetMethods =>
          /\ last.params.method = PyStr("GetData")
          /\ last.params.datasetname = PyStr(DatasetNameOf(last.op))
          /\ last.requests[1].params = last.params
    /\ last.op = "get_dataset_list" =>
          /\ last.params.method = PyStr("GETDATASETLIST")
          /\ last.requests[1].params = last.params
    /\ last.op = "get_parameters_list" =>
          /\ last.params.method = PyStr("GETPARAMETERLIST")
          /\ last.requests[1].params = last.params

\* fixed_assets, called under XML with a scalar table name, named FixedAssets.
C21_Witness ==
    /\ last.op = "fixed_assets"
    /\ ~IsList(last.args.table_name)
    /\ last.before = "XML"
    /\ last.requests[1].params.datasetname = PyStr("FixedAssets")
    /\ last.requests[1].params.method = PyStr("GetData")

----------------------------------------------------------------------------
(* Independence of instances (checked under SpecTwo). *)

\* The fields of client i.
Client(i) ==
    IF this = i
    THEN [api_key |-> api_key, _format |-> _format, authstate |-> authstate]
    ELSE other

\* No step changes a field of a client other than the one operated on, and
\* turning from one client to the other changes no field of either.
OtherClientUntouched ==
    [][\A i \in {1, 2} : (i # this \/ this' # this) => Client(i)' = Client(i)]_vars

\* A request carries the key and the format of the client it was made on.
RequestCarriesOwnFields ==
    last.op \in DatasetMethods \cup {"get_parameters_list"} =>
        /\ last.requests[1].params.userid = PyStr(Client(this).api_key)
        /\ last.requests[1].params.resultformat = PyStr(Client(this)._format)

\* C22: client instances are independent: with two clients, a format change
\* (accepted or rejected) or a data-method call on one leaves the other's
\* format, API key and authorized flag unchanged, and the other's later
\* requests carry its own format and key.
C22_ClientsAreIndependent ==
    OtherClientUntouched /\ []RequestCarriesOwnFields

\* Client 1 was switched to XML; client 2, with a different key, then made a
\* dataset call that carried JSON and its own key.
C22_Witness ==
    /\ this = 2
    /\ Client(1)._format = "XML"
    /\ Client(1).api_key # Client(2).api_key
    /\ last.op \in DatasetMethods
    /\ last.requests[1].params.resultformat = PyStr("JSON")
    /\ last.requests[1].params.userid = PyStr(Client(2).api_key)

----------------------------------------------------------------------------
(* The format is always one of the two words (checked under Spec). *)

\* The format is "JSON" or "XML".
FormatRecognised == _format \in {"JSON", "XML"}

\* The last call raised from the final else-branch of lines 132-133: a
\* response came back and ConnectionError was raised.
ElseBranchTaken ==
    /\ Responded
    /\ last.outcome = "raise"
    /\ last.error = "ConnectionError"

\* C23: a new client has format "JSON"; after any sequence of format
\* assignments, accepted or rejected, and of calls, successful or failed,
\* the format is exactly "JSON" or "XML"; so the final else-branch of
\* _make_request is taken only for a response whose status is not ok, never
\* for an unrecognised format.
C23_FormatAlwaysRecognised ==
    /\ _format = "JSON"
    /\ [](FormatRecognised /\ last.before \in {"JSON", "XML"})
    /\ [](ElseBranchTaken => ~ok(last.response))

\* With the format set to XML, a call answered with an error status took the
\* else-branch.
C23_Witness ==
    /\ ElseBranchTaken
    /\ _format = "XML"
    /\ last.before = "XML"
    /\ ~ok(last.response)

----------------------------------------------------------------------------
(* The authorized flag and dispatch (checked under Spec). *)

\* A call on a client without a key was made while the flag was false.
CalledUnauthorized == Dispatched /\ api_key = "" /\ ~authstate

\* The call built its params and sent one GET request with them.
SentAnyway ==
    /\ Len(last.requests) = 1
    /\ last.requests[1].method = "GET"
    /\ last.requests[1].params = last.params

\* A client without a key still sends the request of every method.
FlagDoesNotGate == CalledUnauthorized => SentAnyway

\* C24: the authorized flag does not gate requests: a client constructed
\* with an empty API key still builds the parameters and sends the GET
\* request of every data method, with userid set to the empty key.
C24_UnauthorizedClientStillSends ==
    CalledUnauthorized =>
        /\ SentAnyway
        /\ "userid" \in DOMAIN last.requests[1].params
        /\ last.requests[1].params.userid = PyStr("")

====
